---- MODULE Spec2Model ----
(***************************************************************************)
(* The TTL cache of internal/cache (Cache, New, Add, Get, reapLoop): a map *)
(* from key to a timestamped payload behind a sync.RWMutex, and a          *)
(* background goroutine that sweeps it on every tick of a time.Ticker      *)
(* whose period is the TTL.                                                *)
(*                                                                         *)
(* Time is a discrete clock `now`.  Callers are goroutines that call Get   *)
(* and Add; each call is split at its lock operations, so that every       *)
(* interleaving the lock admits is a behaviour of the model.               *)
(***************************************************************************)
EXTENDS Integers, FiniteSets, Sequences, TLC

(* ------------------------------ bounds -------------------------------- *)

\* the clock stops at MaxTime
MaxTime == 3

\* and at ConcTime when all the callers run side by side
ConcTime == 2

\* and at LiveTime when the progress of the calls is checked
LiveTime == 1

\* a line typed at the prompt has at most MaxLen characters
MaxLen == 4

\* the base experience of a pokemon is at most MaxOver below 0 and at most
\* MaxOver above maxBaseExp
MaxOver == 1

\* New is called with a ttl in 1..MaxTTL
MaxTTL == 2

\* a tick is received, and its sweep finished, at most MaxLag after the tick
\* (the same for the start of the goroutine after New)
MaxLag == 1

Keys == {"k1", "k2"}

Payloads == {"v1", "v2"}

\* the goroutines that call Add
Writers == {"w1", "w2"}

\* the goroutines that call Get
Readers == {"r1", "r2"}

Callers == Writers \cup Readers

Reaper == "reaper"

Procs == Callers \cup {Reaper}

\* a nil []byte, the payload Get returns on a miss
Nil == "nil"

NoKey == "none"

NoProc == "nobody"

NoTime == -1

Times == 0..MaxTime

(* ------------------------------ state --------------------------------- *)

VARIABLES
    now,        \* time.Now()
    ttl,        \* Cache.ttl
    entries,    \* Cache.entries, as the set of its (key, entry) pairs
    wOwner,     \* the goroutine that called mu.Lock() and was not yet unlocked
    readers,    \* the goroutines that hold mu for reading
    rblocked,   \* the goroutines asleep in mu.RLock() behind a writer
    pc,         \* where each goroutine is
    arg,        \* the arguments of each caller's call in progress
    ret,        \* what the step just taken returned, when it ended a Get
    fatal,      \* the runtime stopped the process on a concurrent map access
    tickC,      \* ticker.C, a channel of capacity 1: the time of the tick in it
    nextTick,   \* when the ticker fires next
    cur,        \* the time of the tick the reaper received last
    did,        \* history: what the step just taken did to the map
    lastWrite,  \* history: for each key the last Add that wrote it, until
                \* that Add is older than ttl
    reaped,     \* history: the keys a sweep deleted and no Add wrote since
    renewed,    \* history: the keys whose entry was written over an entry
                \* that was older than ttl
    mem,        \* the bytes in the backing array of each []byte
    cfg,        \* config.nextURL and config.prevURL of the REPL
    fret,       \* what the step just taken returned, when it ended a command
    entriesB,   \* Cache.entries of the store of a second client
    clean,      \* the line main read last and what cleanInput made of it
    throw,      \* the last Pokeball thrown: base experience, roll, outcome
    pokedex     \* config.pokedex, as the set of its (name, Pokemon) pairs

vars == <<now, ttl, entries, wOwner, readers, rblocked, pc, arg, ret, fatal,
          tickC, nextTick, cur, did, lastWrite, reaped, renewed,
          mem, cfg, fret, entriesB, clean, throw, pokedex>>

\* what fetching a page never touches: the line read, the Pokeball, the
\* pokedex
repl == <<clean, throw, pokedex>>

\* what the cache itself never touches: the callers' buffers, the REPL's
\* pagination state, the store of another client, and the rest of the REPL
outside == <<mem, cfg, fret, entriesB, repl>>

NoLine == [text |-> <<>>, words |-> <<>>]

NoThrow == [name |-> NoKey, base |-> 0, roll |-> 0 - 1, caught |-> FALSE]

\* the URL main starts with: client.GetFirstLocationAreasURL()
FirstURL == "k1"

NoFetch == [cmd |-> "none", url |-> NoKey, data |-> Nil, err |-> "none",
            cached |-> FALSE, out |-> "none"]

NoArg == [key |-> NoKey, data |-> Nil]

NoRet == [by |-> NoProc, key |-> NoKey, data |-> Nil, found |-> FALSE]

NoDid == [op |-> "none", key |-> NoKey, data |-> Nil, prevData |-> Nil,
          prevAt |-> NoTime, gone |-> {}]

NoWrite == [data |-> Nil, at |-> NoTime, by |-> NoProc]

(* --------------------------- pure functions --------------------------- *)

\* e, ok := c.entries[key]
HasKey(ents, key) == \E e \in ents : e.key = key

EntryOf(ents, key) == CHOOSE e \in ents : e.key = key

\* Lookup with a slip: found is true whatever ok was
LookupAlways(ents, key) ==
    [data |-> IF HasKey(ents, key) THEN EntryOf(ents, key).data ELSE Nil,
     found |-> TRUE]

\* Lookup with a slip: ok is dropped and found is false
LookupNever(ents, key) == [data |-> Nil, found |-> FALSE]

\* the (data, found) pair Get returns
Lookup(ents, key) ==
    IF HasKey(ents, key)
        THEN [data |-> EntryOf(ents, key).data, found |-> TRUE]
        ELSE [data |-> Nil, found |-> FALSE]

\* Assign with a slip: a key that has an entry keeps it
AssignIfAbsent(ents, key, data, t) ==
    IF HasKey(ents, key)
        THEN ents
        ELSE ents \cup {[key |-> key, createdAt |-> t, data |-> data]}

\* Assign with a slip: a key that has an entry keeps its createdAt
AssignKeepAge(ents, key, data, t) ==
    {e \in ents : e.key # key}
        \cup {[key |-> key,
                createdAt |-> IF HasKey(ents, key)
                                THEN EntryOf(ents, key).createdAt ELSE t,
                data |-> data]}

\* c.entries[key] = entry{createdAt: time.Now(), data: data}
Assign(ents, key, data, t) ==
    {e \in ents : e.key # key}
        \cup {[key |-> key, createdAt |-> t, data |-> data]}

\* Expired with a slip: the comparison turned round
ExpiredYoung(e, t, d) == t - e.createdAt < d

\* Expired with a slip: >= for >
ExpiredAtTTL(e, t, d) == t - e.createdAt >= d

\* Expired with a slip: time.Until for time.Since
ExpiredUntil(e, t, d) == e.createdAt - t > d

\* time.Since(e.createdAt) > c.ttl
Expired(e, t, d) == t - e.createdAt > d

\* Sweep with a slip: the map is emptied when one entry is expired
SweepAll(ents, t, d) ==
    IF \E e \in ents : Expired(e, t, d) THEN {} ELSE ents

\* the loop of reapLoop over c.entries, at time t
Sweep(ents, t, d) == {e \in ents : ~Expired(e, t, d)}

(* --------------------------- the lock --------------------------------- *)

\* NoWriter with a slip: nobody is turned away
NoWriterEver(w) == TRUE

\* readerCount >= 0: no writer has announced itself, RLock does not sleep
NoWriter(w) == w = NoProc

\* NoReaders with a slip: the writer does not wait
NoReadersEver(rs) == TRUE

\* Lock returns when the readers that were in have left
NoReaders(rs) == rs = {}

\* Unlock with a slip: the readers asleep behind the writer are not woken
UnlockNoWake(p, label) ==
    /\ wOwner' = NoProc
    /\ UNCHANGED <<readers, rblocked>>
    /\ pc' = [pc EXCEPT ![p] = label]

\* mu.Unlock() by p, which goes on at label: the readers asleep behind the
\* writer now hold the lock
Unlock(p, label) ==
    /\ wOwner' = NoProc
    /\ readers' = rblocked
    /\ rblocked' = {}
    /\ pc' = [q \in Procs |->
                IF q = p THEN label
                ELSE IF q \in rblocked THEN "Get_read" ELSE pc[q]]

\* q is between locking and unlocking, at its access to the map
Reading(q) == pc[q] = "Get_read"

Writing(q) == pc[q] \in {"Add_write", "sweep"}

\* a write of the map by p while another goroutine reads or writes it, and
\* a read while another one writes it, are data races
WriteRace(p) == \E q \in Procs \ {p} : Reading(q) \/ Writing(q)

ReadRace(p) == \E q \in Procs \ {p} : Writing(q)

\* what a write of the map that should leave it as ents2 can leave:
\* in a race the runtime stops the process ("concurrent map writes"), or
\* the write goes through, or it is lost
WriteOutcomes(p, ents2) ==
    IF WriteRace(p)
        THEN {[ents |-> ents2, fatal |-> FALSE],
              [ents |-> entries, fatal |-> FALSE],
              [ents |-> entries, fatal |-> TRUE]}
        ELSE {[ents |-> ents2, fatal |-> FALSE]}

\* what a read of the map that should return r can return: in a race the
\* runtime stops the process, or the read sees the map before or after
\* the write, or neither
ReadOutcomes(p, r) ==
    IF ReadRace(p)
        THEN {[got |-> r, fatal |-> FALSE], [got |-> r, fatal |-> TRUE]}
                \cup {[got |-> [data |-> v, found |-> TRUE], fatal |-> FALSE] :
                        v \in Payloads}
                \cup {[got |-> [data |-> Nil, found |-> FALSE], fatal |-> FALSE]}
        ELSE {[got |-> r, fatal |-> FALSE]}

(* ----------------------------- history -------------------------------- *)

\* a step that neither returns from Get nor touches the map
Quiet ==
    /\ ret' = NoRet
    /\ did' = NoDid
    /\ UNCHANGED <<lastWrite, reaped, renewed>>
    /\ UNCHANGED outside

\* the createdAt of the oldest entry in ents
Oldest(ents) ==
    IF ents = {} THEN NoTime
    ELSE CHOOSE t \in {e.createdAt : e \in ents} :
            \A e \in ents : t <= e.createdAt

\* the last Adds, without the ones older than ttl at time t
Recent(t) ==
    [k \in Keys |->
        IF lastWrite[k] # NoWrite /\ t - lastWrite[k].at > ttl
            THEN NoWrite ELSE lastWrite[k]]

(* ------------------------------ New ----------------------------------- *)

\* New(d): an empty map, a lock nobody holds, ttl = d, and the goroutine of
\* reapLoop, which has not run yet
New(d) ==
    /\ now = 0
    /\ ttl = d
    /\ entries = {}
    /\ wOwner = NoProc
    /\ readers = {}
    /\ rblocked = {}
    /\ pc = [p \in Procs |-> IF p = Reaper THEN "start" ELSE "idle"]
    /\ arg = [p \in Callers |-> NoArg]
    /\ ret = NoRet
    /\ fatal = FALSE
    /\ tickC = NoTime
    /\ nextTick = NoTime
    /\ cur = NoTime
    /\ did = NoDid
    /\ lastWrite = [k \in Keys |-> NoWrite]
    /\ reaped = {}
    /\ renewed = {}
    /\ mem = [v \in Payloads |-> v]
    /\ cfg = [next |-> FirstURL, prev |-> NoKey]
    /\ fret = NoFetch
    /\ entriesB = {}
    /\ clean = NoLine
    /\ throw = NoThrow
    /\ pokedex = {}

\* New is called with a ttl that is positive
Init == \E d \in 1..MaxTTL : New(d)

(* ------------------------------ Get ----------------------------------- *)

\* GetResult with a slip: an entry older than ttl is reported as a miss
GetResultFresh(p) ==
    IF /\ HasKey(entries, arg[p].key)
       /\ now - EntryOf(entries, arg[p].key).createdAt > ttl
        THEN [data |-> Nil, found |-> FALSE]
        ELSE Lookup(entries, arg[p].key)

\* what the body of Get returns to p: e.data, true or nil, false
GetResult(p) == Lookup(entries, arg[p].key)

\* GetRLock with a slip: a lock that prefers readers, which turns a reader
\* away only while a writer is at the map, not while one waits
GetRLockBarging(p, k) ==
    /\ ~fatal
    /\ pc[p] = "idle"
    /\ arg' = [arg EXCEPT ![p] = [key |-> k, data |-> Nil]]
    /\ IF \A q \in Procs : ~Writing(q)
          THEN /\ readers' = readers \cup {p}
               /\ pc' = [pc EXCEPT ![p] = "Get_read"]
               /\ UNCHANGED rblocked
          ELSE /\ rblocked' = rblocked \cup {p}
               /\ pc' = [pc EXCEPT ![p] = "Get_blocked"]
               /\ UNCHANGED readers
    /\ UNCHANGED <<now, ttl, entries, wOwner, fatal, tickC, nextTick, cur>>
    /\ Quiet

\* GetRLock with a slip: Get reads the map without c.mu.RLock()
GetRLockNone(p, k) ==
    /\ ~fatal
    /\ pc[p] = "idle"
    /\ arg' = [arg EXCEPT ![p] = [key |-> k, data |-> Nil]]
    /\ pc' = [pc EXCEPT ![p] = "Get_read"]
    /\ UNCHANGED <<now, ttl, entries, wOwner, readers, rblocked, fatal, tickC,
                   nextTick, cur>>
    /\ Quiet

\* Get(k) is called: c.mu.RLock()
GetRLock(p, k) ==
    /\ ~fatal
    /\ pc[p] = "idle"
    /\ arg' = [arg EXCEPT ![p] = [key |-> k, data |-> Nil]]
    /\ IF NoWriter(wOwner)
          THEN /\ readers' = readers \cup {p}
               /\ pc' = [pc EXCEPT ![p] = "Get_read"]
               /\ UNCHANGED rblocked
          ELSE /\ rblocked' = rblocked \cup {p}
               /\ pc' = [pc EXCEPT ![p] = "Get_blocked"]
               /\ UNCHANGED readers
    /\ UNCHANGED <<now, ttl, entries, wOwner, fatal, tickC, nextTick, cur>>
    /\ Quiet

\* GetRead with a slip: a hit stamps the entry with the time of the read
GetReadTouch(p) ==
    /\ ~fatal
    /\ pc[p] = "Get_read"
    /\ \E o \in ReadOutcomes(p, GetResult(p)) :
          /\ ret' = [by |-> p, key |-> arg[p].key,
                     data |-> o.got.data, found |-> o.got.found]
          /\ fatal' = o.fatal
          /\ entries' = IF o.got.found
                           THEN Assign(entries, arg[p].key, o.got.data, now)
                           ELSE entries
    /\ readers' = readers \ {p}
    /\ pc' = [pc EXCEPT ![p] = "idle"]
    /\ arg' = [arg EXCEPT ![p] = NoArg]
    /\ UNCHANGED <<now, ttl, wOwner, rblocked, tickC, nextTick, cur>>
    /\ did' = NoDid
    /\ UNCHANGED <<lastWrite, reaped, renewed>>
    /\ UNCHANGED outside

\* e, ok := c.entries[key]; return; the deferred c.mu.RUnlock()
GetRead(p) ==
    /\ ~fatal
    /\ pc[p] = "Get_read"
    /\ \E o \in ReadOutcomes(p, GetResult(p)) :
          /\ ret' = [by |-> p, key |-> arg[p].key,
                     data |-> o.got.data, found |-> o.got.found]
          /\ fatal' = o.fatal
    /\ readers' = readers \ {p}
    /\ pc' = [pc EXCEPT ![p] = "idle"]
    /\ arg' = [arg EXCEPT ![p] = NoArg]
    /\ UNCHANGED <<now, ttl, entries, wOwner, rblocked, tickC, nextTick, cur>>
    /\ did' = NoDid
    /\ UNCHANGED <<lastWrite, reaped, renewed>>
    /\ UNCHANGED outside

(* ------------------------------ Add ----------------------------------- *)

\* Add(k, v) is called
CallAdd(p, k, v) ==
    /\ ~fatal
    /\ pc[p] = "idle"
    /\ pc' = [pc EXCEPT ![p] = "Add_Lock"]
    /\ arg' = [arg EXCEPT ![p] = [key |-> k, data |-> v]]
    /\ UNCHANGED <<now, ttl, entries, wOwner, readers, rblocked, fatal,
                   tickC, nextTick, cur>>
    /\ Quiet

\* AddLock with a slip: Add writes the map without c.mu.Lock()
AddLockNone(p) ==
    /\ ~fatal
    /\ pc[p] = "Add_Lock"
    /\ pc' = [pc EXCEPT ![p] = "Add_write"]
    /\ UNCHANGED <<now, ttl, entries, wOwner, readers, rblocked, arg, fatal,
                   tickC, nextTick, cur>>
    /\ Quiet

\* c.mu.Lock(), first half: take the writers' mutex and turn new readers away
AddLock(p) ==
    /\ ~fatal
    /\ pc[p] = "Add_Lock"
    /\ NoWriter(wOwner)
    /\ wOwner' = p
    /\ pc' = [pc EXCEPT ![p] = "Add_wait"]
    /\ UNCHANGED <<now, ttl, entries, readers, rblocked, arg, fatal, tickC,
                   nextTick, cur>>
    /\ Quiet

\* c.mu.Lock(), second half: wait for the readers that are in
AddAcquire(p) ==
    /\ ~fatal
    /\ pc[p] = "Add_wait"
    /\ NoReaders(readers)
    /\ pc' = [pc EXCEPT ![p] = "Add_write"]
    /\ UNCHANGED <<now, ttl, entries, wOwner, readers, rblocked, arg, fatal,
                   tickC, nextTick, cur>>
    /\ Quiet

\* c.entries[key] = entry{...}; the deferred c.mu.Unlock()
AddWrite(p) ==
    /\ ~fatal
    /\ pc[p] = "Add_write"
    /\ \E o \in WriteOutcomes(p, Assign(entries, arg[p].key, arg[p].data, now)) :
          /\ entries' = o.ents
          /\ fatal' = o.fatal
    /\ Unlock(p, "idle")
    /\ arg' = [arg EXCEPT ![p] = NoArg]
    /\ UNCHANGED <<now, ttl, tickC, nextTick, cur>>
    /\ ret' = NoRet
    /\ did' = [op |-> "add", key |-> arg[p].key, data |-> arg[p].data,
               prevData |-> Lookup(entries, arg[p].key).data,
               prevAt |-> IF HasKey(entries, arg[p].key)
                            THEN EntryOf(entries, arg[p].key).createdAt
                            ELSE NoTime,
               gone |-> {}]
    /\ lastWrite' = [lastWrite EXCEPT ![arg[p].key] =
                        [data |-> arg[p].data, at |-> now, by |-> p]]
    /\ reaped' = reaped \ {arg[p].key}
    /\ renewed' = IF /\ HasKey(entries, arg[p].key)
                     /\ now - EntryOf(entries, arg[p].key).createdAt > ttl
                    THEN renewed \cup {arg[p].key}
                    ELSE renewed \ {arg[p].key}
    /\ UNCHANGED outside

(* ---------------------------- reapLoop -------------------------------- *)

\* ticker := time.NewTicker(c.ttl), in the goroutine New started;
\* NewTicker panics when the period is not positive, and a panic in a
\* goroutine that nothing recovers stops the process
ReapStart ==
    /\ ~fatal
    /\ pc[Reaper] = "start"
    /\ IF ttl > 0
          THEN /\ nextTick' = now + ttl
               /\ pc' = [pc EXCEPT ![Reaper] = "recv"]
               /\ UNCHANGED fatal
          ELSE /\ fatal' = TRUE
               /\ UNCHANGED <<nextTick, pc>>
    /\ UNCHANGED <<now, ttl, entries, wOwner, readers, rblocked, arg, tickC,
                   cur>>
    /\ Quiet

\* for range ticker.C
ReapRecv ==
    /\ ~fatal
    /\ pc[Reaper] = "recv"
    /\ tickC # NoTime
    /\ cur' = tickC
    /\ tickC' = NoTime
    /\ pc' = [pc EXCEPT ![Reaper] = "Lock"]
    /\ UNCHANGED <<now, ttl, entries, wOwner, readers, rblocked, arg, fatal,
                   nextTick>>
    /\ Quiet

\* c.mu.Lock(), first half
ReapLock ==
    /\ ~fatal
    /\ pc[Reaper] = "Lock"
    /\ NoWriter(wOwner)
    /\ wOwner' = Reaper
    /\ pc' = [pc EXCEPT ![Reaper] = "wait"]
    /\ UNCHANGED <<now, ttl, entries, readers, rblocked, arg, fatal, tickC,
                   nextTick, cur>>
    /\ Quiet

\* c.mu.Lock(), second half
ReapAcquire ==
    /\ ~fatal
    /\ pc[Reaper] = "wait"
    /\ NoReaders(readers)
    /\ pc' = [pc EXCEPT ![Reaper] = "sweep"]
    /\ UNCHANGED <<now, ttl, entries, wOwner, readers, rblocked, arg, fatal,
                   tickC, nextTick, cur>>
    /\ Quiet

\* ReapSweep with a slip: reapLoop returns after its first sweep
ReapSweepOnce ==
    /\ ~fatal
    /\ pc[Reaper] = "sweep"
    /\ \E o \in WriteOutcomes(Reaper, Sweep(entries, now, ttl)) :
          /\ entries' = o.ents
          /\ fatal' = o.fatal
    /\ Unlock(Reaper, "returned")
    /\ UNCHANGED <<now, ttl, arg, tickC, nextTick, cur>>
    /\ ret' = NoRet
    /\ did' = [NoDid EXCEPT !.op = "sweep",
                            !.gone = {e.key : e \in entries \ entries'},
                            !.prevAt = Oldest(entries \ entries')]
    /\ reaped' = reaped \cup {e.key : e \in entries \ entries'}
    /\ renewed' = renewed \ {e.key : e \in entries \ entries'}
    /\ UNCHANGED lastWrite
    /\ UNCHANGED outside

\* the loop over c.entries; c.mu.Unlock()
ReapSweep ==
    /\ ~fatal
    /\ pc[Reaper] = "sweep"
    /\ \E o \in WriteOutcomes(Reaper, Sweep(entries, now, ttl)) :
          /\ entries' = o.ents
          /\ fatal' = o.fatal
    /\ Unlock(Reaper, "recv")
    /\ UNCHANGED <<now, ttl, arg, tickC, nextTick, cur>>
    /\ ret' = NoRet
    /\ did' = [NoDid EXCEPT !.op = "sweep",
                            !.gone = {e.key : e \in entries \ entries'},
                            !.prevAt = Oldest(entries \ entries')]
    /\ reaped' = reaped \cup {e.key : e \in entries \ entries'}
    /\ renewed' = renewed \ {e.key : e \in entries \ entries'}
    /\ UNCHANGED lastWrite
    /\ UNCHANGED outside

(* ------------------------------ time ---------------------------------- *)

\* the reaper is as late as it may be: the clock waits for it
Lagging ==
    \/ pc[Reaper] = "start" /\ now >= MaxLag
    \/ tickC # NoTime /\ now >= tickC + MaxLag
    \/ pc[Reaper] \in {"Lock", "wait", "sweep"} /\ now >= cur + MaxLag

\* the clock advances, up to limit; at nextTick the ticker sends the time on ticker.C,
\* and drops the tick when the channel is full
Advance(limit) ==
    /\ ~fatal
    /\ now < limit
    /\ ~Lagging
    /\ now' = now + 1
    /\ IF now + 1 = nextTick
          THEN /\ tickC' = IF tickC = NoTime THEN now + 1 ELSE tickC
               /\ nextTick' = nextTick + ttl
          ELSE UNCHANGED <<tickC, nextTick>>
    /\ UNCHANGED <<ttl, entries, wOwner, readers, rblocked, pc, arg, fatal,
                   cur>>
    /\ ret' = NoRet
    /\ did' = NoDid
    /\ lastWrite' = Recent(now + 1)
    /\ UNCHANGED <<reaped, renewed>>
    /\ UNCHANGED outside

(* ---------------------------- the callers ----------------------------- *)

\* the bytes of the payload ents holds for key k: Add stored the caller's
\* slice, not a copy, and Get returns that slice
Bytes(ents, k, m) == m[EntryOf(ents, k).data]

\* a caller writes c into the []byte v, one it passed to Add or got from Get
Mutate(v, c) ==
    /\ ~fatal
    /\ c # mem[v]
    /\ mem' = [mem EXCEPT ![v] = c]
    /\ UNCHANGED <<now, ttl, entries, wOwner, readers, rblocked, pc, arg,
                   fatal, tickC, nextTick, cur>>
    /\ ret' = NoRet
    /\ did' = NoDid
    /\ UNCHANGED <<lastWrite, reaped, renewed>>
    /\ UNCHANGED <<cfg, fret, entriesB>>
    /\ UNCHANGED repl

(* --------------------------- the line read --------------------------- *)

\* the goroutine of main, which runs the commands one after the other
Main == "w1"

\* the characters of a line: a space, a tab, a lower-case letter, an
\* upper-case letter
Alphabet == {" ", "\t", "a", "B"}

\* the lines scanner.Text() can return, as sequences of characters
Lines == UNION {[1..n -> Alphabet] : n \in 0..MaxLen}

\* the white space strings.Fields splits around (unicode.IsSpace)
IsSpace(c) == c \in {" ", "\t"}

\* strings.Fields(s), read from position i on, w being the characters of
\* the word that is being read
RECURSIVE FieldsFrom(_, _, _)
FieldsFrom(s, i, w) ==
    IF i > Len(s)
        THEN IF w = <<>> THEN <<>> ELSE <<w>>
        ELSE IF IsSpace(s[i])
                THEN IF w = <<>>
                        THEN FieldsFrom(s, i + 1, <<>>)
                        ELSE <<w>> \o FieldsFrom(s, i + 1, <<>>)
                ELSE FieldsFrom(s, i + 1, Append(w, s[i]))

Fields(s) == FieldsFrom(s, 1, <<>>)

\* ToLower with a slip: the word is kept as it was typed
ToLowerKept(word) == word

\* strings.ToLower(word)
ToLower(word) ==
    [i \in 1..Len(word) |-> IF word[i] = "B" THEN "b" ELSE word[i]]

\* words := strings.Fields(text); for i, word := range words
\* { words[i] = strings.ToLower(word) }; return words
cleanInput(text) ==
    LET words == Fields(text)
    IN  [i \in 1..Len(words) |-> ToLower(words[i])]

\* main reads the line t at the prompt: input := scanner.Text();
\* args := cleanInput(input)
ReadLine(t) ==
    /\ ~fatal
    /\ pc[Main] = "idle"
    /\ clean' = [text |-> t, words |-> cleanInput(t)]
    /\ ret' = NoRet
    /\ did' = NoDid
    /\ UNCHANGED <<now, ttl, entries, wOwner, readers, rblocked, pc, arg,
                   fatal, tickC, nextTick, cur, lastWrite, reaped, renewed,
                   mem, cfg, fret, entriesB, throw, pokedex>>

(* ----------------------------- the catch ----------------------------- *)

\* const maxBaseExp = 400
maxBaseExp == 400

\* the values of Pokemon.BaseExperience
BaseExps == (0 - MaxOver)..(maxBaseExp + MaxOver)

\* what rand.Intn(maxBaseExp) returns
Rolls == 0..(maxBaseExp - 1)

Min(a, b) == IF a < b THEN a ELSE b

\* catchThreshold := pokemon.BaseExperience;
\* catchThreshold = min(catchThreshold, maxBaseExp)
catchThreshold(base) == Min(base, maxBaseExp)

\* Caught with a slip: the comparison is turned around
CaughtBelow(base, roll) == roll <= catchThreshold(base)

\* if roll >= catchThreshold
Caught(base, roll) == roll >= catchThreshold(base)

\* cfg.pokedex[pokemonName] = *pokemon
Put(dex, name, base) ==
    {e \in dex : e.name # name} \cup {[name |-> name, base |-> base]}

\* Thrown with a slip: the pokemon is stored whatever the roll
ThrownAlways(dex, name, base, roll) == Put(dex, name, base)

\* the pokedex after the Pokeball was thrown with this roll
Thrown(dex, name, base, roll) ==
    IF Caught(base, roll) THEN Put(dex, name, base) ELSE dex

\* commandCatch: GetPokemon(name) returned a pokemon of base experience b
Fetched(name, b) ==
    /\ ~fatal
    /\ pc[Main] = "idle"
    /\ throw = NoThrow
    /\ throw' = [name |-> name, base |-> b, roll |-> 0 - 1, caught |-> FALSE]
    /\ ret' = NoRet
    /\ did' = NoDid
    /\ UNCHANGED <<now, ttl, entries, wOwner, readers, rblocked, pc, arg,
                   fatal, tickC, nextTick, cur, lastWrite, reaped, renewed,
                   mem, cfg, fret, entriesB, clean, pokedex>>

\* commandCatch: the Pokeball is thrown at the pokemon that was fetched, and
\* the pokemon is caught or escapes
Throw ==
    /\ ~fatal
    /\ pc[Main] = "idle"
    /\ throw.name # NoKey
    /\ throw.roll < 0
    /\ \E roll \in Rolls :
          /\ throw' = [throw EXCEPT !.roll = roll,
                                    !.caught = Caught(throw.base, roll)]
          /\ pokedex' = Thrown(pokedex, throw.name, throw.base, roll)
    /\ ret' = NoRet
    /\ did' = NoDid
    /\ UNCHANGED <<now, ttl, entries, wOwner, readers, rblocked, pc, arg,
                   fatal, tickC, nextTick, cur, lastWrite, reaped, renewed,
                   mem, cfg, fret, entriesB, clean>>

(* ------------------------ the client and the REPL --------------------- *)

\* url := fmt.Sprintf("%s/pokemon/%s/", c.baseURL, name)
PokemonURL(name) == IF name = "pidgey" THEN "pokemon/pidgey" ELSE "pokemon/?"

\* url := fmt.Sprintf("%s/location-area/%s/", c.baseURL, name)
AreaURL(name) == IF name = "city" THEN "location-area/city" ELSE "location-area/?"

\* the pokemon a URL of GetPokemon names
NameOf(url) == IF url = "pokemon/pidgey" THEN "pidgey" ELSE "?"

\* the body the API serves at url, and the links json.Unmarshal finds in the
\* bytes of a body: the first page links to the second and the second back
BodyOf(url) ==
    IF url = "k1" THEN "v1"
    ELSE IF url = PokemonURL("pidgey") THEN "pidgey.json"
    ELSE IF url = AreaURL("city") THEN "city.json"
    ELSE "v2"

\* a body that came with status 200 and is not the JSON of its endpoint
Bad == "bad"

\* the bytes of a body: the buffers of the callers of Add and Get are in mem
Content(data) == IF data \in DOMAIN mem THEN mem[data] ELSE data

\* json.Unmarshal(data, &response) returns nil
Decodes(data) == Content(data) # Bad

\* Pokemon.BaseExperience in the bytes of a body
BaseOf(data) == IF data = "pidgey.json" THEN 50 ELSE 0

PageNext(bytes) == IF bytes = "v1" THEN "k2" ELSE NoKey

PagePrev(bytes) == IF bytes = "v2" THEN "k1" ELSE NoKey

\* cfg.nextURL = resp.Next; cfg.prevURL = resp.Previous
Turned(data) == [next |-> PageNext(mem[data]), prev |-> PagePrev(mem[data])]

\* the command that fetches url: map fetches *cfg.nextURL, mapb *cfg.prevURL
CmdOf(url) ==
    IF url = PokemonURL(NameOf(url)) THEN "catch"
    ELSE IF url = AreaURL("city") THEN "explore"
    ELSE IF url = cfg.next THEN "map" ELSE "mapb"

\* what a command that has returned leaves in fret
Result(c, url, data, err, cached, out) ==
    [cmd |-> c, url |-> url, data |-> data, err |-> err, cached |-> cached,
     out |-> out]

\* Handles with a slip: the error of json.Unmarshal is dropped in
\* GetLocationAreas, and the command turns to the links of the empty
\* response
HandlesUndecoded(p, data, cached) ==
    LET url == arg[p].key
        c == CmdOf(url)
    IN  /\ cfg' = IF c \in {"map", "mapb"}
                     THEN IF Decodes(data) THEN Turned(data)
                                           ELSE [next |-> NoKey, prev |-> NoKey]
                     ELSE cfg
        /\ fret' = Result(c, url, data,
                          IF Decodes(data) THEN "none" ELSE "failed to parse",
                          cached, "none")
        /\ UNCHANGED pokedex

\* fetchWithCache has returned data to p: GetLocationAreas, GetLocationArea
\* or GetPokemon decodes it, and the command goes on with what was decoded,
\* or returns the error of json.Unmarshal
Handles(p, data, cached) ==
    LET url == arg[p].key
        c == CmdOf(url)
    IN  IF ~Decodes(data)
           THEN /\ fret' = Result(c, url, data, "failed to parse", cached, "none")
                /\ UNCHANGED <<cfg, pokedex>>
           ELSE IF c = "catch"
                   THEN /\ \E roll \in Rolls :
                             /\ pokedex' = Thrown(pokedex, NameOf(url),
                                                  BaseOf(data), roll)
                             /\ fret' = Result(c, url, data, "none", cached,
                                               IF Caught(BaseOf(data), roll)
                                                  THEN "caught" ELSE "escaped")
                        /\ UNCHANGED cfg
                   ELSE /\ cfg' = IF c = "explore" THEN cfg ELSE Turned(data)
                        /\ fret' = Result(c, url, data, "none", cached, "none")
                        /\ UNCHANGED pokedex

\* a fetch step that does not end the command
Fetching ==
    /\ fret' = NoFetch
    /\ ret' = NoRet
    /\ did' = NoDid
    /\ UNCHANGED <<lastWrite, reaped, renewed, mem, cfg, entriesB>>
    /\ UNCHANGED repl

\* commandMap or commandMapb calls GetLocationAreas(url), which calls
\* fetchWithCache(url), which calls c.cache.Get(url): c.mu.RLock()
Command(p, url) ==
    /\ ~fatal
    /\ pc[p] = "idle"
    /\ url # NoKey
    /\ arg' = [arg EXCEPT ![p] = [key |-> url, data |-> Nil]]
    /\ IF NoWriter(wOwner)
          THEN /\ readers' = readers \cup {p}
               /\ pc' = [pc EXCEPT ![p] = "Get_read"]
               /\ UNCHANGED rblocked
          ELSE /\ rblocked' = rblocked \cup {p}
               /\ pc' = [pc EXCEPT ![p] = "Get_blocked"]
               /\ UNCHANGED readers
    /\ UNCHANGED <<now, ttl, entries, wOwner, fatal, tickC, nextTick, cur>>
    /\ Fetching

\* if cfg.nextURL == nil (map), if cfg.prevURL == nil (mapb): otherwise fetch
CommandMap(p) == Command(p, cfg.next)

CommandMapb(p) == Command(p, cfg.prev)

\* the body of Get and its RUnlock; on a hit fetchWithCache returns the
\* cached data and the command turns the page, on a miss it goes to the API
FetchRead(p) ==
    /\ ~fatal
    /\ pc[p] = "Get_read"
    /\ readers' = readers \ {p}
    /\ \E o \in ReadOutcomes(p, GetResult(p)) :
          /\ fatal' = o.fatal
          /\ IF o.got.found
                THEN /\ pc' = [pc EXCEPT ![p] = "idle"]
                     /\ arg' = [arg EXCEPT ![p] = NoArg]
                     /\ Handles(p, o.got.data, TRUE)
                ELSE /\ pc' = [pc EXCEPT ![p] = "http"]
                     /\ UNCHANGED <<arg, cfg, pokedex>>
                     /\ fret' = NoFetch
    /\ UNCHANGED <<now, ttl, entries, wOwner, rblocked, tickC, nextTick, cur>>
    /\ ret' = NoRet
    /\ did' = NoDid
    /\ UNCHANGED <<lastWrite, reaped, renewed, mem, entriesB>>
    /\ UNCHANGED <<clean, throw>>

\* fetchWithCache returns nil and the error e, and the command returns it
FetchFails(p, e) ==
    /\ pc' = [pc EXCEPT ![p] = "idle"]
    /\ arg' = [arg EXCEPT ![p] = NoArg]
    /\ fret' = Result(CmdOf(arg[p].key), arg[p].key, Nil, e, FALSE, "none")
    /\ ret' = NoRet
    /\ did' = NoDid
    /\ UNCHANGED <<lastWrite, reaped, renewed, mem, cfg, entriesB>>
    /\ UNCHANGED repl

\* what http.Get(url) can come back with: an error, a response whose
\* status is not 200, a response with status 200
HTTPOutcomes == {"failed to fetch data", "API returned status", "200"}

\* resp, err := http.Get(url) and the check of resp.StatusCode
FetchDo(p) ==
    /\ ~fatal
    /\ pc[p] = "http"
    /\ \E o \in HTTPOutcomes :
          IF o = "200"
             THEN /\ pc' = [pc EXCEPT ![p] = "readall"]
                  /\ UNCHANGED arg
                  /\ Fetching
             ELSE FetchFails(p, o)
    /\ UNCHANGED <<now, ttl, entries, wOwner, readers, rblocked, fatal, tickC,
                   nextTick, cur>>

\* FetchReadAll with a slip: the error of io.ReadAll is dropped, and what
\* was read before it, here nothing, is added to the cache
FetchReadAllUnchecked(p) ==
    /\ ~fatal
    /\ pc[p] = "readall"
    /\ \E v \in {BodyOf(arg[p].key), Nil} :
          arg' = [arg EXCEPT ![p].data = v]
    /\ pc' = [pc EXCEPT ![p] = "Add_Lock"]
    /\ Fetching
    /\ UNCHANGED <<now, ttl, entries, wOwner, readers, rblocked, fatal, tickC,
                   nextTick, cur>>

\* data, err := io.ReadAll(resp.Body); on success c.cache.Add(url, data)
\* is called
FetchReadAll(p) ==
    /\ ~fatal
    /\ pc[p] = "readall"
    /\ \E o \in {"failed to read response", "read"} :
          IF o = "read"
             THEN /\ pc' = [pc EXCEPT ![p] = "Add_Lock"]
                  /\ arg' = [arg EXCEPT ![p].data = BodyOf(arg[p].key)]
                  /\ Fetching
             ELSE FetchFails(p, o)
    /\ UNCHANGED <<now, ttl, entries, wOwner, readers, rblocked, fatal, tickC,
                   nextTick, cur>>

\* the body of Add and its Unlock; fetchWithCache returns the data and the
\* command turns the page
FetchAddWrite(p) ==
    /\ ~fatal
    /\ pc[p] = "Add_write"
    /\ \E o \in WriteOutcomes(p, Assign(entries, arg[p].key, arg[p].data, now)) :
          /\ entries' = o.ents
          /\ fatal' = o.fatal
    /\ Unlock(p, "idle")
    /\ arg' = [arg EXCEPT ![p] = NoArg]
    /\ UNCHANGED <<now, ttl, tickC, nextTick, cur>>
    /\ ret' = NoRet
    /\ did' = [op |-> "add", key |-> arg[p].key, data |-> arg[p].data,
               prevData |-> Lookup(entries, arg[p].key).data,
               prevAt |-> IF HasKey(entries, arg[p].key)
                            THEN EntryOf(entries, arg[p].key).createdAt
                            ELSE NoTime,
               gone |-> {}]
    /\ lastWrite' = [lastWrite EXCEPT ![arg[p].key] =
                        [data |-> arg[p].data, at |-> now, by |-> p]]
    /\ reaped' = reaped \ {arg[p].key}
    /\ renewed' = IF /\ HasKey(entries, arg[p].key)
                     /\ now - EntryOf(entries, arg[p].key).createdAt > ttl
                    THEN renewed \cup {arg[p].key}
                    ELSE renewed \ {arg[p].key}
    /\ Handles(p, arg[p].data, FALSE)
    /\ UNCHANGED <<mem, entriesB>>
    /\ UNCHANGED <<clean, throw>>

\* io.ReadAll returns the body of a response of status 200, and the body is
\* not what the endpoint should serve; c.cache.Add(url, data) is called
FetchReadGarbled(p) ==
    /\ ~fatal
    /\ pc[p] = "readall"
    /\ pc' = [pc EXCEPT ![p] = "Add_Lock"]
    /\ arg' = [arg EXCEPT ![p].data = Bad]
    /\ Fetching
    /\ UNCHANGED <<now, ttl, entries, wOwner, readers, rblocked, fatal, tickC,
                   nextTick, cur>>

\* a command that returns without a call of the client: what it returned
\* and printed is all it leaves
Says(p, c, err, out) ==
    /\ ~fatal
    /\ pc[p] = "idle"
    /\ fret' = Result(c, NoKey, Nil, err, FALSE, out)
    /\ ret' = NoRet
    /\ did' = NoDid
    /\ UNCHANGED <<now, ttl, entries, wOwner, readers, rblocked, pc, arg,
                   fatal, tickC, nextTick, cur, lastWrite, reaped, renewed,
                   mem, cfg, entriesB>>
    /\ UNCHANGED repl

\* commandMap: if cfg.nextURL == nil { "You're on the last page"; return nil }
LastPage(p) == cfg.next = NoKey /\ Says(p, "map", "none", "last page")

\* commandMapb: if cfg.prevURL == nil { "You're on the first page";
\* return nil }
FirstPage(p) == cfg.prev = NoKey /\ Says(p, "mapb", "none", "first page")

\* commandCatch with a name: GetPokemon(name) calls fetchWithCache(url)
CommandCatch(p, name) == Command(p, PokemonURL(name))

\* commandExplore with a name: GetLocationArea(name) calls
\* fetchWithCache(url)
CommandExplore(p, name) == Command(p, AreaURL(name))

\* commandCatch and commandExplore without a name:
\* if len(args) == 0 { return fmt.Errorf("please provide ...") }
NoName(p, c) == Says(p, c, "please provide a name", "none")

\* commandHelp prints the commands
CommandHelp(p) == Says(p, "help", "none", "help")

\* commandInspect: pokemon, ok := cfg.pokedex[pokemonName]; the stats are
\* printed if ok
CommandInspect(p, name) ==
    Says(p, "inspect", "none",
         IF \E e \in pokedex : e.name = name THEN "stats" ELSE "not caught")

\* commandPokedex prints the names in cfg.pokedex
CommandPokedex(p) ==
    Says(p, "pokedex", "none", IF pokedex = {} THEN "empty" ELSE "names")

\* main: cmd, exists := getCommands()[cmdName]; if !exists { "Unknown
\* command"; continue }
Unknown(p) == Says(p, "unknown", "none", "unknown command")

(* --------------------------- a second store -------------------------- *)

\* the goroutine that uses the store of the second client
ClientB == "b1"

\* MapOf with a slip: one map for all the stores
MapOfShared(c) == "m1"

\* entries: make(map[string]entry) in New: each store has a map of its own;
\* the variable entries is the map m1 and entriesB the map m2
MapOf(c) == IF c = "A" THEN "m1" ELSE "m2"

\* c.entries for the second store
EntriesOfB == IF MapOf("B") = "m1" THEN entries ELSE entriesB

\* c.entries of the second store becomes ents2
WriteB(ents2) ==
    IF MapOf("B") = "m1"
        THEN entries' = ents2 /\ UNCHANGED entriesB
        ELSE entriesB' = ents2 /\ UNCHANGED entries

\* what a step of the second store leaves alone: the lock, the goroutines
\* and the ticker of the first, which New made for the first alone
AloneB ==
    /\ ~fatal
    /\ UNCHANGED <<now, ttl, wOwner, readers, rblocked, pc, arg, fatal, tickC,
                   nextTick, cur, lastWrite, reaped, renewed, mem, cfg, fret>>
    /\ UNCHANGED repl

\* Add(k, v) on the second store, from Lock to Unlock
AddB(k, v) ==
    /\ AloneB
    /\ WriteB(Assign(EntriesOfB, k, v, now))
    /\ ret' = NoRet
    /\ did' = [NoDid EXCEPT !.op = "addB", !.key = k, !.data = v]

\* Get(k) on the second store, from RLock to RUnlock
GetB(k) ==
    /\ AloneB
    /\ UNCHANGED <<entries, entriesB>>
    /\ ret' = [by |-> ClientB, key |-> k,
               data |-> Lookup(EntriesOfB, k).data,
               found |-> Lookup(EntriesOfB, k).found]
    /\ did' = NoDid

\* a sweep of the second store, from Lock to Unlock: its ticker, made no
\* earlier than New, has sent a tick
SweepB ==
    /\ AloneB
    /\ now >= ttl
    /\ WriteB(Sweep(EntriesOfB, now, ttl))
    /\ ret' = NoRet
    /\ did' = [NoDid EXCEPT !.op = "sweepB",
                            !.gone = {e.key : e \in EntriesOfB \ Sweep(EntriesOfB, now, ttl)}]

(* --------------------------- specifications --------------------------- *)

\* one goroutine that calls Add, one that calls Get, and the reaper
Next ==
    \/ \E k \in Keys : GetRLock("r1", k)
    \/ GetRead("r1")
    \/ \E k \in Keys, v \in Payloads : CallAdd("w1", k, v)
    \/ AddLock("w1")
    \/ AddAcquire("w1")
    \/ AddWrite("w1")
    \/ ReapStart
    \/ ReapRecv
    \/ ReapLock
    \/ ReapAcquire
    \/ ReapSweep
    \/ Advance(MaxTime)

Spec == Init /\ [][Next]_vars

\* the payload each writer adds when the writers run side by side
Own(p) == IF p = "w1" THEN "v1" ELSE "v2"

\* all the callers, each writer with a payload of its own, and the reaper
NextConc ==
    \/ \E p \in Readers, k \in Keys : GetRLock(p, k)
    \/ \E p \in Readers : GetRead(p)
    \/ \E p \in Writers, k \in Keys : CallAdd(p, k, Own(p))
    \/ \E p \in Writers : AddLock(p)
    \/ \E p \in Writers : AddAcquire(p)
    \/ \E p \in Writers : AddWrite(p)
    \/ ReapStart
    \/ ReapRecv
    \/ ReapLock
    \/ ReapAcquire
    \/ ReapSweep
    \/ Advance(ConcTime)

\* New(ttl) with the shortest ttl
InitConc == Init /\ ttl = 1

\* the ttl New is called with when nothing is known of it
TTLArgs == (0 - 1)..MaxTTL

\* New is called with any ttl
InitAny == \E d \in TTLArgs : New(d)

SpecAny == InitAny /\ [][Next]_vars

SpecConc == InitConc /\ [][NextConc]_vars

\* one writer, one reader and the reaper, with callers that write into the
\* buffers they hold
NextAlias ==
    \/ \E k \in Keys : GetRLock("r1", k)
    \/ GetRead("r1")
    \/ \E k \in Keys, v \in Payloads : CallAdd("w1", k, v)
    \/ AddLock("w1")
    \/ AddAcquire("w1")
    \/ AddWrite("w1")
    \/ ReapStart
    \/ ReapRecv
    \/ ReapLock
    \/ ReapAcquire
    \/ ReapSweep
    \/ Advance(ConcTime)
    \/ \E v \in Payloads, c \in Payloads : Mutate(v, c)

SpecAlias == InitConc /\ [][NextAlias]_vars

\* the REPL, whose commands map and mapb fetch pages through the client's
\* cache, and the reaper of that cache
NextFetch ==
    \/ CommandMap(Main)
    \/ CommandMapb(Main)
    \/ FetchRead(Main)
    \/ FetchDo(Main)
    \/ FetchReadAll(Main)
    \/ AddLock(Main)
    \/ AddAcquire(Main)
    \/ FetchAddWrite(Main)
    \/ ReapStart
    \/ ReapRecv
    \/ ReapLock
    \/ ReapAcquire
    \/ ReapSweep
    \/ Advance(MaxTime)

SpecFetch == Init /\ [][NextFetch]_vars

\* two clients, each with a store of its own: a writer, a reader and the
\* reaper of the first store, and the calls and sweeps of the second
NextTwo ==
    \/ \E k \in Keys : GetRLock("r1", k)
    \/ GetRead("r1")
    \/ \E k \in Keys : CallAdd("w1", k, Own("w1"))
    \/ AddLock("w1")
    \/ AddAcquire("w1")
    \/ AddWrite("w1")
    \/ ReapStart
    \/ ReapRecv
    \/ ReapLock
    \/ ReapAcquire
    \/ ReapSweep
    \/ Advance(ConcTime)
    \/ \E k \in Keys : AddB(k, Own("w2"))
    \/ \E k \in Keys : GetB(k)
    \/ SweepB

SpecTwo == InitConc /\ [][NextTwo]_vars

\* the scheduler runs every goroutine that can run; the writers' mutex of
\* sync.RWMutex hands itself to the goroutines waiting for it in turn, so
\* none of them waits for ever
Fairness ==
    /\ \A p \in Readers : WF_vars(GetRead(p))
    /\ \A p \in Writers : SF_vars(AddLock(p))
    /\ \A p \in Writers : WF_vars(AddAcquire(p))
    /\ \A p \in Writers : WF_vars(AddWrite(p))
    /\ SF_vars(ReapLock)
    /\ WF_vars(ReapAcquire)
    /\ WF_vars(ReapSweep)

\* the key each caller uses when only the progress of the calls matters
KeyOf(p) == IF p \in {"w1", "r1"} THEN "k1" ELSE "k2"

\* all the callers, each with a key and a payload of its own, and the reaper
NextLive ==
    \/ \E p \in Readers : GetRLock(p, KeyOf(p))
    \/ \E p \in Readers : GetRead(p)
    \/ \E p \in Writers : CallAdd(p, KeyOf(p), Own(p))
    \/ \E p \in Writers : AddLock(p)
    \/ \E p \in Writers : AddAcquire(p)
    \/ \E p \in Writers : AddWrite(p)
    \/ ReapStart
    \/ ReapRecv
    \/ ReapLock
    \/ ReapAcquire
    \/ ReapSweep
    \/ Advance(LiveTime)

SpecLive == InitConc /\ [][NextLive]_vars /\ Fairness

\* a writer and a reader that use one key, and the reaper
NextReap ==
    \/ GetRLock("r1", KeyOf("r1"))
    \/ GetRead("r1")
    \/ CallAdd("w1", KeyOf("w1"), Own("w1"))
    \/ AddLock("w1")
    \/ AddAcquire("w1")
    \/ AddWrite("w1")
    \/ ReapStart
    \/ ReapRecv
    \/ ReapLock
    \/ ReapAcquire
    \/ ReapSweep
    \/ Advance(MaxTime)

\* the goroutine New started gets to run, a tick in the channel is received,
\* and time passes
FairReap ==
    /\ Fairness
    /\ WF_vars(ReapStart)
    /\ WF_vars(ReapRecv)
    /\ WF_vars(Advance(MaxTime))

SpecReap == Init /\ [][NextReap]_vars /\ FairReap

\* main reading lines, and nothing else
NextClean == \E t \in Lines : ReadLine(t)

SpecClean == Init /\ [][NextClean]_vars

\* one catch of a pokemon of any base experience
NextCatch ==
    \/ \E b \in BaseExps : Fetched("pidgey", b)
    \/ Throw

SpecCatch == InitConc /\ [][NextCatch]_vars

\* main turns the pages forth and back, the API answers as it likes, with
\* bodies that do not decode too, and the reaper sweeps
NextPages ==
    \/ CommandMap(Main)
    \/ CommandMapb(Main)
    \/ LastPage(Main)
    \/ FirstPage(Main)
    \/ FetchRead(Main)
    \/ FetchDo(Main)
    \/ FetchReadAll(Main)
    \/ FetchReadGarbled(Main)
    \/ AddLock(Main)
    \/ AddAcquire(Main)
    \/ FetchAddWrite(Main)
    \/ ReapStart
    \/ ReapRecv
    \/ ReapLock
    \/ ReapAcquire
    \/ ReapSweep
    \/ Advance(MaxTime)

SpecPages == Init /\ [][NextPages]_vars

\* the REPL: main runs the commands, the API answers as it likes, the
\* reaper sweeps
NextRepl ==
    \/ CommandMap(Main)
    \/ CommandMapb(Main)
    \/ LastPage(Main)
    \/ FirstPage(Main)
    \/ CommandCatch(Main, "pidgey")
    \/ CommandExplore(Main, "city")
    \/ \E c \in {"catch", "explore"} : NoName(Main, c)
    \/ CommandHelp(Main)
    \/ CommandInspect(Main, "pidgey")
    \/ CommandPokedex(Main)
    \/ Unknown(Main)
    \/ FetchRead(Main)
    \/ FetchDo(Main)
    \/ FetchReadAll(Main)
    \/ FetchReadGarbled(Main)
    \/ AddLock(Main)
    \/ AddAcquire(Main)
    \/ FetchAddWrite(Main)
    \/ ReapStart
    \/ ReapRecv
    \/ ReapLock
    \/ ReapAcquire
    \/ ReapSweep
    \/ Advance(LiveTime)

SpecRepl == Init /\ [][NextRepl]_vars

\* the goroutines that call fetchWithCache on the one client side by side
Fetchers == {"w1", "w2"}

\* two goroutines fetch the first page, each when it likes
NextRace ==
    \/ \E p \in Fetchers : Command(p, FirstURL)
    \/ \E p \in Fetchers : FetchRead(p)
    \/ \E p \in Fetchers : FetchDo(p)
    \/ \E p \in Fetchers : FetchReadAll(p)
    \/ \E p \in Fetchers : AddLock(p)
    \/ \E p \in Fetchers : AddAcquire(p)
    \/ \E p \in Fetchers : FetchAddWrite(p)
    \/ ReapStart
    \/ ReapRecv
    \/ ReapLock
    \/ ReapAcquire
    \/ ReapSweep
    \/ Advance(ConcTime)

SpecRace == InitConc /\ [][NextRace]_vars

(* ------------------------------ claims -------------------------------- *)

\* the step is the return of a Get by p, the write of an Add by p, a sweep
GetReturns(p) == pc[p] = "Get_read" /\ pc'[p] = "idle"

AddWrites(p) == pc[p] = "Add_write" /\ pc'[p] = "idle"

Sweeps == pc[Reaper] = "sweep" /\ pc'[Reaper] = "recv"

\* a Get has just returned
Returned == ret.by # NoProc

\* the entry the last Add of key k wrote
Written(k) ==
    [key |-> k, createdAt |-> lastWrite[k].at, data |-> lastWrite[k].data]

\* C1: a Get(k) that returns while the last Add(k, v) is the newest write
\* of k and is not older than ttl, and so a Get right after that Add,
\* returns (v, true), whatever was added, read and swept before.
RoundTrip ==
    (Returned /\ lastWrite[ret.key] # NoWrite)
        => (ret.found /\ ret.data = lastWrite[ret.key].data)

\* a Get returned the payload of an Add made at the same instant, after a
\* sweep had deleted an entry
RoundTripSeen ==
    /\ Returned
    /\ lastWrite[ret.key] # NoWrite
    /\ lastWrite[ret.key].at = now
    /\ ret.found
    /\ ret.data = lastWrite[ret.key].data
    /\ reaped # {}

\* C2: the store is empty after New, an entry appears for a key only by an
\* Add of that key, a key a sweep deleted has no entry until it is added
\* again, and a Get of a key that has no entry returns (nil, false).
Miss ==
    /\ entries = {}
    /\ [](\A k \in reaped : ~HasKey(entries, k))
    /\ [][\A k \in Keys :
            (~HasKey(entries, k) /\ HasKey(entries', k))
                => \E p \in Writers : AddWrites(p) /\ arg[p].key = k]_vars
    /\ [][\A p \in Readers :
            (GetReturns(p) /\ ~HasKey(entries, arg[p].key))
                => ret' = [by |-> p, key |-> arg[p].key,
                           data |-> Nil, found |-> FALSE]]_vars

\* a Get missed a key that a sweep had deleted
MissSeen == Returned /\ ~ret.found /\ ret.data = Nil /\ ret.key \in reaped

\* C3: the store holds at most one entry per key; right after an Add(k, v2)
\* the entry of k is the one that Add made, whatever entry k had, and a
\* Get(k) returns (v2, true).
Overwrite ==
    /\ \A e1, e2 \in entries : e1.key = e2.key => e1 = e2
    /\ did.op = "add" =>
          /\ {e \in entries : e.key = did.key}
                = {[key |-> did.key, createdAt |-> now, data |-> did.data]}
          /\ Lookup(entries, did.key) = [data |-> did.data, found |-> TRUE]
    /\ (Returned /\ lastWrite[ret.key] # NoWrite /\ lastWrite[ret.key].at = now)
          => (ret.found /\ ret.data = lastWrite[ret.key].data)

\* an Add has just replaced another payload
OverwriteSeen ==
    /\ did.op = "add"
    /\ did.prevData \in Payloads \ {did.data}
    /\ Lookup(entries, did.key).data = did.data

\* C4: an entry that is not older than ttl stays in the store in every step
\* that is not an Add of its key: no sweep at a time t with
\* t - createdAt <= ttl deletes it.
Retention ==
    [][\A e \in entries :
          (/\ now - e.createdAt <= ttl
           /\ ~\E p \in Writers : AddWrites(p) /\ arg[p].key = e.key)
              => e \in entries']_vars

\* a sweep has just deleted an entry and kept one that is exactly ttl old
RetentionSeen ==
    /\ did.op = "sweep"
    /\ did.gone # {}
    /\ \E e \in entries : now - e.createdAt = ttl

\* a tick was sent and its sweep is not done, or the ticker does not exist yet
SweepDue ==
    \/ pc[Reaper] = "start"
    \/ tickC # NoTime
    \/ pc[Reaper] \in {"Lock", "wait", "sweep"}

\* C5 as stated: no entry is in the store later than 2 * ttl after its Add.
EvictedBy2TTL == \A e \in entries : now - e.createdAt <= 2 * ttl

\* C5, amended: an entry is in the store later than 2 * ttl after its Add
\* only while the sweep of a tick that was sent is still to be done (or the
\* reaper has not made its ticker yet): the second tick after the Add
\* removes it, as late after 2 * ttl as its sweep is after the tick.
EvictedBySecondSweep ==
    \A e \in entries : now - e.createdAt > 2 * ttl => SweepDue

\* a sweep has just deleted an entry later than 2 * ttl after its Add
EvictedSeen ==
    /\ did.op = "sweep"
    /\ did.prevAt # NoTime
    /\ now - did.prevAt > 2 * ttl

\* C6: a Get of a key whose entry is older than ttl and still in the store
\* returns the entry's payload and true.
LazyExpiration ==
    Returned =>
        \A e \in entries :
            (e.key = ret.key /\ now - e.createdAt > ttl)
                => (ret.found /\ ret.data = e.data)

\* a Get has just returned a payload that is 2 * ttl old
LazyExpirationSeen ==
    /\ Returned
    /\ ret.found
    /\ \E e \in entries :
          e.key = ret.key /\ e.data = ret.data /\ now - e.createdAt = 2 * ttl

LockDiscipline ==
    /\ ~fatal
    /\ \A p \in Procs :
          Writing(p) =>
              /\ wOwner = p
              /\ readers = {}
              /\ \A q \in Procs \ {p} : ~Reading(q) /\ ~Writing(q)
    /\ \A p \in Callers : Reading(p) => p \in readers

\* two Gets read the map side by side while an Add and the sweep wait
LockDisciplineSeen ==
    /\ \A p \in Readers : Reading(p)
    /\ \E p \in Writers : pc[p] = "Add_wait"
    /\ pc[Reaper] = "Lock"
    /\ \E p \in Writers : pc[p] = "Add_Lock"

\* C9: every key whose last Add has returned and is not older than ttl is in
\* the store with the payload of the writer that added it, in whatever order
\* the writers, the readers and the reaper ran; and the process was not
\* stopped.
NoLostEntries ==
    /\ ~fatal
    /\ \A k \in Keys :
          lastWrite[k] # NoWrite =>
              /\ Lookup(entries, k) = [data |-> lastWrite[k].data, found |-> TRUE]
              /\ lastWrite[k].data = Own(lastWrite[k].by)

\* both writers have added, to different keys at the same instant, a sweep
\* has run at that instant, and a Get has just returned
NoLostEntriesSeen ==
    /\ \A p \in Writers : pc[p] = "idle"
    /\ \E k1, k2 \in Keys :
          /\ k1 # k2
          /\ lastWrite[k1] = [data |-> "v1", at |-> now, by |-> "w1"]
          /\ lastWrite[k2] = [data |-> "v2", at |-> now, by |-> "w2"]
    /\ cur = now
    /\ pc[Reaper] = "recv"
    /\ Returned

\* p is inside a call of Get or Add; the reaper is inside a sweep
InCall(p) == pc[p] # "idle"

InSweep == pc[Reaper] \in {"Lock", "wait", "sweep"}

\* p holds mu or has announced itself as its next writer
Holds(p) == wOwner = p \/ p \in readers \/ p \in rblocked

\* a goroutine that holds mu, or the reaper that received a tick, can step
CanStep ==
    \/ \E p \in Readers : ENABLED GetRead(p)
    \/ \E p \in Writers :
          ENABLED AddLock(p) \/ ENABLED AddAcquire(p) \/ ENABLED AddWrite(p)
    \/ ENABLED ReapLock
    \/ ENABLED ReapAcquire
    \/ ENABLED ReapSweep

\* C10: with a fair scheduler every Get and every Add that was called
\* returns and every sweep that was started ends; whenever a call or a sweep
\* is in progress some goroutine in it can take a step; a goroutine outside
\* Get and Add does not hold mu, and the reaper does not hold it while it
\* waits for a tick.
NoBlocking ==
    /\ \A p \in Callers : InCall(p) ~> ~InCall(p)
    /\ InSweep ~> ~InSweep
    /\ []((InSweep \/ \E p \in Callers : InCall(p)) => CanStep)
    /\ [](\A p \in Callers : ~InCall(p) => ~Holds(p))
    /\ [](~InSweep => ~Holds(Reaper))

\* a writer waits for the writers' mutex and a reader sleeps behind the
\* writer that waits for the other reader to leave, while a tick is in
\* the channel
NoBlockingSeen ==
    /\ \E p \in Writers : pc[p] = "Add_Lock"
    /\ \E p \in Writers : pc[p] = "Add_wait"
    /\ \E p \in Readers : pc[p] = "Get_blocked"
    /\ \E p \in Readers : pc[p] = "Get_read"
    /\ tickC # NoTime

\* p waits in mu.Lock(): for the writers' mutex, or for the readers to leave
WaitsToWrite(p) == pc[p] \in {"Add_Lock", "Add_wait", "Lock", "wait"}

\* C11: an Add and a sweep that wait in mu.Lock() get the lock, however many
\* Gets are called while they wait: from the moment a writer has announced
\* itself no reader is let in before that writer has unlocked.
WriterNotStarved ==
    /\ \A p \in Writers \cup {Reaper} : WaitsToWrite(p) ~> Writing(p)
    /\ [][(wOwner # NoProc /\ wOwner' = wOwner) => readers' \subseteq readers]_vars

\* the sweep waits for a Get to leave while the other Get, called after the
\* sweep announced itself, sleeps, and both writers wait behind the sweep
WriterNotStarvedSeen ==
    /\ pc[Reaper] = "wait"
    /\ \E p \in Readers : pc[p] = "Get_read"
    /\ \E p \in Readers : pc[p] = "Get_blocked"
    /\ \A p \in Writers : pc[p] = "Add_Lock"

\* C12: a Get returns what the map holds for its key when it reads it, and
\* the map does not change while a Get holds the lock, so the Get sees every
\* Add and sweep that unlocked before it got the lock; an entry comes into
\* the map only whole, as the key, payload and time of one Add, so what a
\* Get returns is a miss or the payload of one Add of its key.
Visibility ==
    /\ [][\A p \in Readers :
            GetReturns(p) =>
                ret' = [by |-> p, key |-> arg[p].key,
                        data |-> Lookup(entries, arg[p].key).data,
                        found |-> Lookup(entries, arg[p].key).found]]_vars
    /\ [][(readers \cap readers' # {}) => entries' = entries]_vars
    /\ [][\A e \in entries' \ entries :
            \E p \in Writers :
                /\ AddWrites(p)
                /\ e = [key |-> arg[p].key, createdAt |-> now,
                        data |-> arg[p].data]]_vars
    /\ [](\A k \in Keys : lastWrite[k] # NoWrite => Written(k) \in entries)

\* a Get has just returned the payload of the Add that unlocked last, while
\* the other writer has announced an Add of another payload to the same key
VisibilitySeen ==
    /\ Returned
    /\ ret.found
    /\ lastWrite[ret.key] # NoWrite
    /\ ret.data = lastWrite[ret.key].data
    /\ wOwner \in Writers
    /\ arg[wOwner].key = ret.key
    /\ arg[wOwner].data # ret.data

\* the entry of key k in ents, as a set: empty when k has none
EntryAt(ents, k) == {e \in ents : e.key = k}

\* C13: two Adds are never at the map together; the write of an Add leaves
\* for its key exactly the payload and the time of that Add, and the entry
\* of a key changes in no other step but a write of an Add of that key and a
\* sweep: of two Adds of one key that run side by side the one that wrote
\* last has its payload and time in the store, which is one writer's payload
\* whole.
SerializedAdds ==
    /\ [](\A p, q \in Writers :
            (pc[p] = "Add_write" /\ pc[q] = "Add_write") => p = q)
    /\ [][\A p \in Writers :
            AddWrites(p) =>
                EntryAt(entries', arg[p].key)
                    = {[key |-> arg[p].key, createdAt |-> now,
                        data |-> arg[p].data]}]_vars
    /\ [][\A k \in Keys :
            EntryAt(entries', k) # EntryAt(entries, k) =>
                \/ \E p \in Writers : AddWrites(p) /\ arg[p].key = k
                \/ Sweeps /\ EntryAt(entries', k) = {}]_vars
    /\ [](\A e \in entries : \E p \in Writers : e.data = Own(p))

\* the second writer has just written a key over the first writer's payload
\* of the same instant, while the first writer is in its next Add of that key
SerializedAddsSeen ==
    /\ did.op = "add"
    /\ did.data = "v2"
    /\ did.prevData = "v1"
    /\ did.prevAt = now
    /\ pc["w1"] \in {"Add_Lock", "Add_wait"}
    /\ arg["w1"].key = did.key
    /\ EntryAt(entries, did.key)
            = {[key |-> did.key, createdAt |-> now, data |-> "v2"]}

\* C14: a sweep at time now deletes the entries with now - createdAt > ttl
\* and no other, and leaves nothing in the map that was not in it.
SweepExact ==
    [][Sweeps =>
          /\ entries \ entries' = {e \in entries : now - e.createdAt > ttl}
          /\ entries' \subseteq entries]_vars

\* a sweep has just deleted one entry and kept one that is younger than ttl
SweepExactSeen ==
    /\ did.op = "sweep"
    /\ Cardinality(did.gone) = 1
    /\ \E e \in entries : now - e.createdAt < ttl

\* C15: the bytes the store holds for a key change only by an Add of that
\* key: no write of a caller into a buffer changes them.
NoAliasing ==
    [][\A k \in Keys :
          (/\ HasKey(entries, k)
           /\ HasKey(entries', k)
           /\ Bytes(entries', k, mem') # Bytes(entries, k, mem))
              => \E p \in Writers : AddWrites(p) /\ arg[p].key = k]_vars

\* p is in the Add that fetchWithCache calls
InAdd(p) == pc[p] \in {"Add_Lock", "Add_wait", "Add_write"}

\* C16: fetchWithCache calls Add only with the whole body of a response of
\* status 200 to a request made after a miss; nothing but that Add and the
\* sweeps changes the cache, so a call that returns an error left it as it
\* was, and the URL of that call has no entry until it is fetched again.
AddAfterSuccess ==
    /\ [](InAdd(Main) =>
            /\ arg[Main].data = BodyOf(arg[Main].key)
            /\ ~HasKey(entries, arg[Main].key))
    /\ [](did.op = "add" =>
            /\ did.data = BodyOf(did.key)
            /\ did.prevData = Nil
            /\ fret.err = "none"
            /\ ~fret.cached)
    /\ [][InAdd(Main)' /\ ~InAdd(Main) => pc[Main] = "readall"]_vars
    /\ [][pc'[Main] = "readall" /\ pc[Main] # "readall" => pc[Main] = "http"]_vars
    /\ [][entries' # entries => AddWrites(Main) \/ Sweeps]_vars
    /\ [](fret.err # "none" => ~HasKey(entries, fret.url))

\* the fetch of the second page has just failed on the status of the
\* response, with the first page in the cache
AddAfterSuccessSeen ==
    /\ fret.err = "API returned status"
    /\ fret.url = "k2"
    /\ HasKey(entries, "k1")
    /\ ~HasKey(entries, "k2")
    /\ pc[Main] = "idle"

\* p is at the API: between http.Get and the end of io.ReadAll
AtAPI(p) == pc[p] \in {"http", "readall"}

\* C17: a fetched body is in the cache from its Add until a sweep deletes
\* it; a fetch of a URL that is in the cache returns the cached body, which
\* is the body fetched, and makes no request: the client is at the API only
\* for a URL that is not in the cache.
Deduplication ==
    /\ [](did.op = "add" => HasKey(entries, did.key))
    /\ [][\A k \in Keys :
            (HasKey(entries, k) /\ ~HasKey(entries', k)) => Sweeps]_vars
    /\ [][(/\ pc[Main] = "Get_read"
           /\ pc'[Main] # "Get_read"
           /\ HasKey(entries, arg[Main].key))
              => /\ pc'[Main] = "idle"
                 /\ fret'.cached
                 /\ fret'.err = "none"
                 /\ fret'.url = arg[Main].key
                 /\ fret'.data = EntryOf(entries, arg[Main].key).data]_vars
    /\ [](fret.cached => fret.data = BodyOf(fret.url))
    /\ [](AtAPI(Main) => ~HasKey(entries, arg[Main].key))

\* map has just returned the second page from the cache: the page is the
\* last one, so it was fetched by an earlier map, and a mapb went back
DeduplicationSeen ==
    /\ fret.cmd = "map"
    /\ fret.cached
    /\ fret.url = "k2"
    /\ fret.data = "v2"
    /\ cfg = [next |-> NoKey, prev |-> "k1"]

\* the step is a write to the second store: an Add, a sweep
WritesB == did'.op \in {"addB", "sweepB"}

\* C18: the map of each store changes only in the Adds and sweeps of that
\* store, and a Get on a store returns what the map of that store holds:
\* no call and no sweep of one store changes the other or what a Get on the
\* other returns.
Independent ==
    /\ [][entries' # entries =>
            /\ ~WritesB
            /\ (\E p \in Writers : AddWrites(p)) \/ Sweeps]_vars
    /\ [][entriesB' # entriesB => WritesB]_vars
    /\ [](\A e \in entriesB : e.data = Own("w2"))
    /\ [](\A e \in entries : e.data = Own("w1"))
    /\ [](Returned =>
            [data |-> ret.data, found |-> ret.found]
                = Lookup(IF ret.by = ClientB THEN entriesB ELSE entries,
                         ret.key))

\* a Get on the second store has just returned the payload added to it,
\* for a key that has another payload in the first store, and the second
\* store holds a key that a sweep of the first store deleted there
IndependentSeen ==
    /\ ret = [by |-> ClientB, key |-> "k1", data |-> "v2", found |-> TRUE]
    /\ Lookup(entries, "k1") = [data |-> "v1", found |-> TRUE]
    /\ "k2" \in reaped
    /\ HasKey(entriesB, "k2")

\* C20: New hands out no store whose reaper stops the process: with a ttl
\* that is not positive New refused, or made the period positive, so the
\* reaper of a store that was handed out does not fail.
NewGuardsTTL == ttl <= 0 => ~fatal

\* C19 as stated: the sweeps run at New + ttl, New + 2 * ttl, and so on
\* (New is at time 0).
SweepsOnPeriod == did.op = "sweep" => (now >= ttl /\ now % ttl = 0)

\* C19, amended: the goroutine New started makes its ticker when it first
\* runs, and from then on the ticker is always set to fire within ttl; a
\* sweep runs for a tick it received, at or after the time of the tick and
\* no earlier than ttl after New, and the ticks of successive sweeps are a
\* multiple of ttl apart; every tick that is in the channel is followed by
\* its sweep; the reaper never leaves its loop and the process is not
\* stopped.
ReaperLives ==
    /\ pc[Reaper] = "start" ~> pc[Reaper] = "recv"
    /\ \A t \in Times : (tickC = t) ~> (did.op = "sweep" /\ cur = t)
    /\ \A t \in Times : (nextTick = t) ~> (now = t)
    /\ [](pc[Reaper] # "start" => (now < nextTick /\ nextTick <= now + ttl))
    /\ [](did.op = "sweep" => (cur >= ttl /\ now >= cur))
    /\ [][(cur' # cur /\ cur # NoTime) =>
            (cur' > cur /\ (cur' - cur) % ttl = 0)]_vars
    /\ [](pc[Reaper] \in {"start", "recv", "Lock", "wait", "sweep"})
    /\ [](~fatal)

\* the sweep of a tick that was not the first has just run, later than
\* the tick, and has deleted an entry
ReaperLivesSeen ==
    /\ did.op = "sweep"
    /\ cur >= 2 * ttl
    /\ now > cur
    /\ did.gone # {}

\* the characters of s that are not white space, in order
Letters(s) == SelectSeq(s, LAMBDA c : ~IsSpace(c))

\* the positions of s where a word starts
WordStarts(s) ==
    {i \in 1..Len(s) : ~IsSpace(s[i]) /\ (i = 1 \/ IsSpace(s[i - 1]))}

\* the words of ws one after the other
RECURSIVE Flat(_)
Flat(ws) == IF ws = <<>> THEN <<>> ELSE Head(ws) \o Flat(Tail(ws))

\* the lower-case form of a character
LowerCase(c) == IF c = "B" THEN "b" ELSE c

\* C21: cleanInput returns the words of its input that white space
\* separates, in their order and in lower case: there is one word for each
\* run of characters that are not white space, no word is empty or holds
\* white space or an upper-case letter, put together the words are the
\* lower-cased characters of the input without its white space, and an
\* input that is empty or all white space gives the empty list
CleanInputWords ==
    LET t == clean.text
        ws == clean.words
    IN  /\ Len(ws) = Cardinality(WordStarts(t))
        /\ \A i \in 1..Len(ws) :
              /\ ws[i] # <<>>
              /\ \A j \in 1..Len(ws[i]) :
                    ~IsSpace(ws[i][j]) /\ ws[i][j] # "B"
        /\ Flat(ws) = [i \in 1..Len(Letters(t)) |-> LowerCase(Letters(t)[i])]
        /\ (\A i \in 1..Len(t) : IsSpace(t[i])) => ws = <<>>

\* a line that starts with white space and has two words, one of them typed
\* in upper case, was read
CleanInputWordsSeen ==
    /\ Len(clean.text) = MaxLen
    /\ IsSpace(clean.text[1])
    /\ clean.words = << <<"b">>, <<"a">> >>

\* the step is the call of a Get by p
GetCalls(p) == pc[p] = "idle" /\ pc'[p] \in {"Get_read", "Get_blocked"}

\* C23: a Get, hit or miss, leaves the map of entries as it was, the
\* createdAt of every entry included: no step of a Get, its call or its
\* return, changes entries
GetChangesNothing ==
    [][\A p \in Callers :
          (GetCalls(p) \/ GetReturns(p)) => entries' = entries]_vars

\* a Get has just returned an entry that was added before the time of the
\* read
GetChangesNothingSeen ==
    /\ Returned
    /\ ret.found
    /\ HasKey(entries, ret.key)
    /\ EntryOf(entries, ret.key).createdAt < now

\* a Pokeball was thrown
HasThrown == throw.roll >= 0

\* the pokemon of the throw is in the pokedex
InPokedex == \E e \in pokedex : e.name = throw.name /\ e.base = throw.base

\* C24: the pokemon is added to the pokedex exactly when the roll, one of
\* 0..399, is at least the smaller of its base experience and 400; so a
\* base experience of 400 or more is never caught, one of 0 or less is
\* always caught, and a roll that catches a pokemon also catches every
\* pokemon of lower base experience
CatchRule ==
    HasThrown =>
        /\ throw.roll \in 0..399
        /\ InPokedex <=>
              IF throw.base < 400 THEN throw.roll >= throw.base
                                  ELSE throw.roll >= 400
        /\ throw.caught <=> InPokedex
        /\ throw.base >= 400 => ~InPokedex
        /\ throw.base <= 0 => InPokedex
        /\ \A b \in BaseExps :
              (b >= throw.base /\ Caught(b, throw.roll)) => InPokedex

\* a pokemon with a base experience between 0 and 400 was caught by a roll
\* that was just enough
CatchRuleSeen ==
    /\ HasThrown
    /\ throw.base \in 1..399
    /\ throw.roll = throw.base
    /\ InPokedex

\* the step is the call of a command by main that goes to the client, the
\* return of such a command
Calls == pc[Main] = "idle" /\ pc'[Main] # "idle"

Returns == pc[Main] # "idle" /\ pc'[Main] = "idle"

\* C22: nextURL and prevURL change only when map or mapb returns without an
\* error, having fetched and decoded a page, and then they are the Next and
\* the Previous of that page; a command that returns an error, of the fetch
\* or of the decoding, leaves them as they were; map and mapb fetch only
\* the URL of a pointer that is not nil, and with a nil pointer they make no
\* request and leave both pointers as they were
PagesTurn ==
    /\ [][cfg' # cfg =>
            /\ Returns
            /\ fret'.cmd \in {"map", "mapb"}
            /\ fret'.err = "none"
            /\ fret'.data \in {"v1", "v2"}]_vars
    /\ [][(Returns /\ fret'.err = "none") =>
            cfg' = [next |-> PageNext(fret'.data),
                    prev |-> PagePrev(fret'.data)]]_vars
    /\ [][fret'.err # "none" => cfg' = cfg]_vars
    /\ [][Calls =>
            /\ arg'[Main].key # NoKey
            /\ arg'[Main].key \in {cfg.next, cfg.prev}]_vars
    /\ [][(fret' # fret /\ fret'.cmd = "map" /\ cfg.next = NoKey) =>
            (cfg' = cfg /\ pc' = pc /\ fret'.url = NoKey)]_vars
    /\ [][(fret' # fret /\ fret'.cmd = "mapb" /\ cfg.prev = NoKey) =>
            (cfg' = cfg /\ pc' = pc /\ fret'.url = NoKey)]_vars

\* on the first page, map has fetched a body for the second page that did
\* not decode, and the pointers are those of the first page
PagesTurnSeen ==
    /\ fret.cmd = "map"
    /\ fret.err = "failed to parse"
    /\ fret.url = "k2"
    /\ cfg = [next |-> "k2", prev |-> NoKey]

\* the names in a pokedex
NamesIn(dex) == {e.name : e \in dex}

\* C25: the pokedex changes only when a catch returns without an error with
\* the pokemon caught, and then the pokemon it fetched is put in; every
\* other step, of any other command, of a catch that failed or of one the
\* pokemon escaped, leaves the pokedex as it was; no name is ever removed,
\* and what the pokedex holds is what was fetched
PokedexGrows ==
    /\ [][pokedex' # pokedex =>
            /\ Returns
            /\ fret'.cmd = "catch"
            /\ fret'.err = "none"
            /\ fret'.out = "caught"
            /\ fret'.data = BodyOf(arg[Main].key)
            /\ pokedex' = Put(pokedex, NameOf(arg[Main].key),
                              BaseOf(fret'.data))]_vars
    /\ [][(fret' # fret /\ fret'.out # "caught") => pokedex' = pokedex]_vars
    /\ [][(Returns /\ fret'.out = "caught") =>
            NameOf(arg[Main].key) \in NamesIn(pokedex')]_vars
    /\ [][NamesIn(pokedex) \subseteq NamesIn(pokedex')]_vars
    /\ [](pokedex \subseteq {[name |-> "pidgey", base |-> 50]})

\* a pokemon that was caught before has just escaped, and is still in the
\* pokedex
PokedexGrowsSeen ==
    /\ fret.cmd = "catch"
    /\ fret.out = "escaped"
    /\ "pidgey" \in NamesIn(pokedex)

\* the entry of url holds a body that does not decode
HoldsBad(ents, url) == \E e \in ents : e.key = url /\ e.data = Bad

\* C26: a body of status 200 that fails to decode is not left in the
\* cache: when a command has returned the error of the decoding, the cache
\* has no entry with that body for the URL, and no command is served a body
\* that does not decode from the cache
MalformedNotCached ==
    /\ (pc[Main] = "idle" /\ fret.err = "failed to parse")
          => ~HoldsBad(entries, fret.url)
    /\ ~(fret.cached /\ fret.err = "failed to parse")

\* C27: two calls of fetchWithCache for one URL that is not in the cache
\* make at most one request, so the two callers are never both at the API
\* for the same URL, and the cache holds at most one entry for a URL
OneRequest ==
    /\ \A p, q \in Fetchers :
          (p # q /\ AtAPI(p) /\ AtAPI(q)) => arg[p].key # arg[q].key
    /\ \A k \in Keys : Cardinality({e \in entries : e.key = k}) <= 1

TypeOK ==
    /\ now \in Times
    /\ ttl \in 1..MaxTTL
    /\ entries \subseteq [key : Keys, createdAt : Times, data : Payloads]
    /\ wOwner \in Procs \cup {NoProc}
    /\ readers \subseteq Callers
    /\ rblocked \subseteq Callers
    /\ tickC \in Times \cup {NoTime}
    /\ reaped \subseteq Keys
    /\ renewed \subseteq Keys
    /\ fatal \in BOOLEAN

====
